---- MODULE Spec2Model ----
(***************************************************************************)
(* The MPT custom pyfunc of the tutorial notebook                          *)
(* docs/source/llms/custom-pyfunc-for-llms/notebooks/                      *)
(* custom-pyfunc-advanced-llm.ipynb: class MPT(mlflow.pyfunc.PythonModel)  *)
(* with load_context, _build_prompt and predict, and the signature cell.   *)
(*                                                                         *)
(* Text is a sequence of pieces (strings); a token is the index of a piece *)
(* in the vocabulary.  Temperatures are counted in tenths (0.1 is 1, 0.6   *)
(* is 6); the float32 narrowing of the ParamSchema default is not          *)
(* modelled.  The tokenizer, the model and its sampler are the external    *)
(* transformers library: they are modelled by what the notebook relies on  *)
(* (encode/decode of a vocabulary, generate returning the input followed   *)
(* by newly sampled tokens, a sampler that is a function of its state).    *)
(***************************************************************************)
EXTENDS Integers, Sequences, FiniteSets, TLC

VARIABLES
    artifacts,    \* the artifact directories on disk: path -> set of files present
    self,         \* the MPT instance's attributes: tokenizer and model
    load_result,  \* how the last load_context call ended
    rng,          \* the state of the sampler's random generator
    call,         \* per caller: the frame of its predict call (locals, position)
    ci            \* the py-cache-key action: the runner's environment and its runs

vars == <<artifacts, self, load_result, rng, call, ci>>

----------------------------------------------------------------------------
(* Bounds of the model *)

\* number of rows of the tabular input
MaxRows == 2
\* number of states of the sampler's generator
NSeeds == 3

----------------------------------------------------------------------------
(* Text and the prompt template *)

INSTRUCTION_KEY == "### Instruction:"
RESPONSE_KEY == "### Response:"
INTRO_BLURB == "Below is an instruction that describes a task. Write a response that appropriately completes the request."
\* the line break and indentation between the lines of the f-string
LINE_BREAK == "\n        "

\* mutant: the two keys of the template change places
_build_prompt_swapped(instruction) ==
    <<INTRO_BLURB, LINE_BREAK, RESPONSE_KEY, LINE_BREAK>>
        \o instruction
        \o <<LINE_BREAK, INSTRUCTION_KEY, LINE_BREAK>>

\* def _build_prompt(self, instruction)
_build_prompt(instruction) ==
    <<INTRO_BLURB, LINE_BREAK, INSTRUCTION_KEY, LINE_BREAK>>
        \o instruction
        \o <<LINE_BREAK, RESPONSE_KEY, LINE_BREAK>>

\* input_example: the prompt of the notebook
ML_QUESTION == <<"What is machine learning?">>
\* the instruction texts callers send; one carries the instruction key itself
Instructions == {ML_QUESTION, <<INSTRUCTION_KEY, "Say hi.">>}

\* a DataFrame with the column "prompt" (input_schema) and 1..MaxRows rows
ModelInputs ==
    {[prompt |-> rows] : rows \in UNION {[1..n -> Instructions] : n \in 1..MaxRows}}

----------------------------------------------------------------------------
(* params: None, or a dict with some of the keys of the ParamSchema *)

ParamKeys == {"temperature", "max_tokens"}

Dict(keys, t, m) == [k \in keys |-> IF k = "temperature" THEN t ELSE m]

NoneParams == [none |-> TRUE, d |-> Dict({}, 0, 0)]

ParamChoices ==
    {NoneParams} \cup
    {[none |-> FALSE, d |-> Dict(keys, t, m)] :
        keys \in SUBSET ParamKeys, t \in {0, 6}, m \in {1}}

\* parameters = ParamSchema([...]): the defaults the signature declares
parameters ==
    [temperature |-> [dtype |-> "float", default |-> 1],
     max_tokens  |-> [dtype |-> "integer", default |-> 1000]]

\* Python's truth value of params: None and the empty dict are false
Truthy(params) == ~params.none /\ DOMAIN params.d # {}

\* dict.get(key, default)
DictGet(d, key, default) == IF key \in DOMAIN d THEN d[key] ELSE default

\* mutant: params.get("temperature") or 0.1, which takes a supplied 0.0 for absent
PredictTemperature_or(params) ==
    IF Truthy(params) /\ DictGet(params.d, "temperature", 0) # 0
    THEN params.d["temperature"] ELSE 1

\* temperature = params.get("temperature", 0.1) if params else 0.1
PredictTemperature(params) ==
    IF Truthy(params) THEN DictGet(params.d, "temperature", 1) ELSE 1

\* mutant: the two literals of the line disagree (... if params else 100)
PredictMaxTokens_else100(params) ==
    IF Truthy(params) THEN DictGet(params.d, "max_tokens", 1000) ELSE 100

\* max_tokens = params.get("max_tokens", 1000) if params else 1000
PredictMaxTokens(params) ==
    IF Truthy(params) THEN DictGet(params.d, "max_tokens", 1000) ELSE 1000

\* mutant: model_input["prompt"][-1], the last row
FirstPrompt_last(model_input) == model_input.prompt[Len(model_input.prompt)]

\* prompt = model_input["prompt"][0]
FirstPrompt(model_input) == model_input.prompt[1]

----------------------------------------------------------------------------
(* The artifact directories *)

RequiredFiles == {"tokenizer", "config", "weights"}

\* snapshot_download(..., local_dir="mpt-7b"), a second complete bundle whose
\* tokenizer prepends its bos token, and three directories each missing the
\* files of one of load_context's three load steps
Snapshots ==
    [p \in {"mpt-7b", "mpt-7b-bos", "no-tokenizer", "no-config", "no-weights"} |->
        CASE p = "no-tokenizer" -> RequiredFiles \ {"tokenizer"}
          [] p = "no-config"    -> RequiredFiles \ {"config"}
          [] p = "no-weights"   -> RequiredFiles \ {"weights"}
          [] OTHER              -> RequiredFiles]

Paths == DOMAIN Snapshots

\* an attribute that was never assigned (reading it is an AttributeError)
UNSET == "<unset>"

----------------------------------------------------------------------------
(* The tokenizer: transformers.AutoTokenizer *)

Vocab ==
    <<"<|endoftext|>", INTRO_BLURB, LINE_BREAK, INSTRUCTION_KEY, RESPONSE_KEY,
      "What is machine learning?", "Say hi.", "Machine learning is a field of AI.">>

TokenId(piece) == CHOOSE i \in 1..Len(Vocab) : Vocab[i] = piece

EOS == TokenId("<|endoftext|>")
SpecialTokens == {EOS}

\* whether the tokenizer loaded from this directory prepends its bos token
AddsBos(tokenizer) == tokenizer = "mpt-7b-bos"

\* tokenizer.encode(text, return_tensors="pt"): a batch of one row of ids
Encode(tokenizer, text) ==
    << (IF AddsBos(tokenizer) THEN <<EOS>> ELSE <<>>)
          \o [i \in 1..Len(text) |-> TokenId(text[i])] >>

RECURSIVE Pieces(_, _)
Pieces(ids, skip_special_tokens) ==
    IF ids = <<>> THEN <<>>
    ELSE IF skip_special_tokens /\ Head(ids) \in SpecialTokens
         THEN Pieces(Tail(ids), skip_special_tokens)
         ELSE <<Vocab[Head(ids)]>> \o Pieces(Tail(ids), skip_special_tokens)

\* tokenizer.decode(ids, skip_special_tokens=...)
Decode(tokenizer, ids, skip_special_tokens) == Pieces(ids, skip_special_tokens)

\* the Python slice s[:n]
SliceTo(s, n) == IF n >= Len(s) THEN s ELSE SubSeq(s, 1, n)

\* mutant: output[0][:prompt_length], the prompt instead of what follows it
SliceFrom_head(s, n) == SliceTo(s, n)

\* the Python slice s[n:]
SliceFrom(s, n) == IF n >= Len(s) THEN <<>> ELSE SubSeq(s, n + 1, Len(s))

----------------------------------------------------------------------------
(* The model: transformers.AutoModelForCausalLM.generate with do_sample=True *)

Seeds == 0..(NSeeds - 1)

\* the token sequences the sampler can draw: an answer ended by the end-of-text
\* token, a continuation that starts a new instruction block, and end-of-text
\* at once
Draws ==
    << <<TokenId("Machine learning is a field of AI."), EOS>>,
       <<TokenId(INSTRUCTION_KEY), TokenId("What is machine learning?")>>,
       <<EOS>> >>

\* the new tokens generate appends for this input, these settings and this
\* sampler state: at most max_new_tokens of them
Sample(model, input_ids, temperature, max_new_tokens, seed) ==
    LET salt == Len(input_ids) + temperature + (IF model = "mpt-7b" THEN 0 ELSE 1)
    IN SliceTo(Draws[((seed + salt) % Len(Draws)) + 1], max_new_tokens)

\* the sampler consumes one draw per generated token
Advance(seed, new_tokens) == (seed + Len(new_tokens)) % NSeeds

----------------------------------------------------------------------------
(* The frames of the predict calls *)

Callers == {1, 2}

NoResult == <<>>

IdleCall ==
    [pc |-> "idle",
     model_input |-> [prompt |-> <<>>],
     params |-> NoneParams,
     prompt |-> <<>>,
     temperature |-> 0,
     max_tokens |-> 0,
     encoded_input |-> <<>>,
     output |-> <<>>,
     generated_text |-> <<>>,
     prompt_length |-> 0,
     returned |-> NoResult,
     error |-> "",
     \* history: the arguments of the generate calls, in order, each with the
     \* state the sampler was in when the call was made
     generate_calls |-> <<>>,
     \* history: the tokens the model appended to its input
     new_tokens |-> <<>>]

Finished(t) == call[t].pc \in {"idle", "returned", "raised"}

\* an exception leaves predict: nothing catches it, the caller gets no value
RaisedCall(t, error) == [call EXCEPT ![t].pc = "raised", ![t].error = error]

Raise(t, error) == call' = RaisedCall(t, error)

----------------------------------------------------------------------------
(* .github/actions/py-cache-key/action.yml: the cache-key step *)

\* N=1, the value to change to force a cache refresh
N == 1

\* the UTC dates of the runner's clock
Dates ==
    {[year |-> 2026, month |-> 1, day |-> 12],
     [year |-> 2026, month |-> 11, day |-> 2],
     [year |-> 2026, month |-> 11, day |-> 3]}

Earlier(d, e) ==
    \/ d.year < e.year
    \/ d.year = e.year /\ d.month < e.month
    \/ d.year = e.year /\ d.month = e.month /\ d.day < e.day

ImageOSes == {"ubuntu22", "ubuntu24"}
ImageVersions == {"20261026.1.0", "20261102.1.0"}
\* what `python --version` prints, as its fields between spaces
PythonVersionOutputs == {<<"Python", "3.10.12">>, <<"Python", "3.11.9">>}
\* the contents of requirements/*requirements.txt
RequirementsFiles == {"requirements-a", "requirements-b"}

\* the environment of the first run
RunnerEnv ==
    [ImageOS |-> "ubuntu22",
     ImageVersion |-> "20261026.1.0",
     python_version |-> <<"Python", "3.10.12">>,
     clock |-> [year |-> 2026, month |-> 1, day |-> 12],
     requirements |-> "requirements-a",
     N |-> N]

\* hashFiles('requirements/*requirements.txt'): a SHA-256 digest, taken as
\* free of collisions on the contents modelled
hashFiles(requirements) ==
    IF requirements = "requirements-a"
    THEN "2c26b46b68ffc68ff99b453c1d30413413422d706483bfa0f98a5e886266e7ae"
    ELSE "fcde2b2edba56bf408601fb721fe9b5c338d10ee429ea04fae5511b68fbf8fb9"

\* RUNNER_IMAGE="$ImageOS-$ImageVersion"
RUNNER_IMAGE(env) == env.ImageOS \o "-" \o env.ImageVersion

\* cut -d' ' -f2
Cut(fields, f) == IF f <= Len(fields) THEN fields[f] ELSE ""

\* mutant: cut -d' ' -f1
PYTHON_VERSION_f1(env) == Cut(env.python_version, 1)

\* PYTHON_VERSION="$(python --version | cut -d' ' -f2)"
PYTHON_VERSION(env) == Cut(env.python_version, 2)

\* %m and %d: two digits, padded with a zero
Pad2(n) == IF n < 10 THEN "0" \o ToString(n) ELSE ToString(n)

\* mutant: date -u "+%Y%-m%-d", month and day without padding
DATE_unpadded(env) ==
    ToString(env.clock.year) \o ToString(env.clock.month) \o ToString(env.clock.day)

\* DATE=$(date -u "+%Y%m%d")
DATE(env) == ToString(env.clock.year) \o Pad2(env.clock.month) \o Pad2(env.clock.day)

\* REQUIREMENTS_HASH: ${{ hashFiles('requirements/*requirements.txt') }}
REQUIREMENTS_HASH(env) == hashFiles(env.requirements)

\* echo "value=$RUNNER_IMAGE-$PYTHON_VERSION-$DATE-$REQUIREMENTS_HASH-$N" >> $GITHUB_OUTPUT
GITHUB_OUTPUT(env) ==
    [value |-> RUNNER_IMAGE(env) \o "-" \o PYTHON_VERSION(env) \o "-" \o DATE(env)
                   \o "-" \o REQUIREMENTS_HASH(env) \o "-" \o ToString(env.N)]

\* outputs.key.value: ${{ steps.cache-key.outputs.value }}
OutputKey(env) == GITHUB_OUTPUT(env).value

----------------------------------------------------------------------------
(* Init: a constructed MPT() on which nothing was called *)

Init ==
    /\ artifacts = Snapshots
    /\ self = [tokenizer |-> UNSET, model |-> UNSET]
    /\ load_result = "none"
    /\ rng \in Seeds
    /\ call = [t \in Callers |-> IdleCall]
    /\ ci = [env |-> RunnerEnv, runs |-> <<>>]

----------------------------------------------------------------------------
(* load_context *)

\* from_pretrained(context.artifacts["snapshot"]) finds the files of a load step
Loadable(snapshot, file) == file \in artifacts[snapshot]

\* The assignments of load_context up to the load step that raises: the
\* tokenizer is assigned before the config and the weights are loaded.
\* load_context runs while no predict call is in progress (mlflow calls it
\* when the model is loaded, before it serves predict); the frames of the
\* calls that ended before it are gone.
load_context_body(snapshot) ==
    /\ \A t \in Callers : Finished(t)
    /\ LET tokenizer_ok == Loadable(snapshot, "tokenizer")
           config_ok == tokenizer_ok /\ Loadable(snapshot, "config")
           model_ok == config_ok /\ Loadable(snapshot, "weights")
       IN /\ self' = [tokenizer |-> IF tokenizer_ok THEN snapshot ELSE self.tokenizer,
                      model |-> IF model_ok THEN snapshot ELSE self.model]
          /\ load_result' = IF model_ok THEN "ok" ELSE "LoadFailure"
    /\ call' = [t \in Callers |-> IdleCall]
    /\ UNCHANGED <<rng, ci>>

\* mutant: load_context also writes into the directory (save_pretrained)
load_context_saving(snapshot) ==
    /\ load_context_body(snapshot)
    /\ artifacts' = [artifacts EXCEPT ![snapshot] = @ \cup {"tokenizer.json"}]

\* def load_context(self, context), context.artifacts["snapshot"] = snapshot
load_context(snapshot) ==
    /\ load_context_body(snapshot)
    /\ UNCHANGED artifacts

----------------------------------------------------------------------------
(* predict, in the steps between its calls into the library *)

\* the locals of predict after lines 199-206: the first row, the parameters,
\* the prompt
BeginFrame(model_input, params) ==
    [IdleCall EXCEPT
        !.pc = "encode",
        !.model_input = model_input,
        !.params = params,
        !.temperature = PredictTemperature(params),
        !.max_tokens = PredictMaxTokens(params),
        !.prompt = _build_prompt(FirstPrompt(model_input))]

\* mutant: predict keeps the request on the instance (self.prompt = prompt)
predict_begin_stateful(t, model_input, params) ==
    /\ Finished(t)
    /\ call' = [call EXCEPT ![t] = BeginFrame(model_input, params)]
    /\ self' = [tokenizer |-> self.tokenizer, model |-> self.model,
                prompt |-> BeginFrame(model_input, params).prompt]
    /\ UNCHANGED <<artifacts, load_result, rng, ci>>

\* def predict(self, context, model_input, params=None), lines 199-206
predict_begin(t, model_input, params) ==
    /\ Finished(t)
    /\ call' = [call EXCEPT ![t] = BeginFrame(model_input, params)]
    /\ UNCHANGED <<artifacts, self, load_result, rng, ci>>

\* line 211: encoded_input = self.tokenizer.encode(prompt, return_tensors="pt")
predict_encode(t) ==
    /\ call[t].pc = "encode"
    /\ IF self.tokenizer = UNSET
       THEN Raise(t, "AttributeError")
       ELSE \/ Raise(t, "RuntimeError")
            \/ call' = [call EXCEPT
                    ![t].pc = "generate",
                    ![t].encoded_input = Encode(self.tokenizer, call[t].prompt)]
    /\ UNCHANGED <<artifacts, self, load_result, rng, ci>>

\* lines 212-217: output = self.model.generate(encoded_input, do_sample=True, ...)
\* drawing from the sampler in state seed
predict_generate_seeded(t, seed) ==
    /\ call[t].pc = "generate"
    /\ IF self.model = UNSET
       THEN Raise(t, "AttributeError") /\ UNCHANGED rng
       ELSE LET kwargs == [input_ids |-> call[t].encoded_input,
                           do_sample |-> TRUE,
                           temperature |-> call[t].temperature,
                           max_new_tokens |-> call[t].max_tokens,
                           sampler |-> rng]
                new == Sample(self.model, kwargs.input_ids[1], kwargs.temperature,
                              kwargs.max_new_tokens, seed)
            IN \/ /\ call' = [RaisedCall(t, "RuntimeError") EXCEPT
                        ![t].generate_calls = Append(@, kwargs)]
                  /\ UNCHANGED rng
               \/ /\ call' = [call EXCEPT
                        ![t].pc = "decode",
                        ![t].generate_calls = Append(@, kwargs),
                        ![t].new_tokens = new,
                        ![t].output = <<kwargs.input_ids[1] \o new>>]
                  /\ rng' = Advance(seed, new)
    /\ UNCHANGED <<artifacts, self, load_result, ci>>

\* mutant: predict reseeds the sampler itself, from a source the caller does
\* not fix (here the caller's identity)
predict_generate_reseeding(t) == predict_generate_seeded(t, (rng + t) % NSeeds)

\* mutant: a failed generate call is made again
predict_generate_retry(t) ==
    \/ predict_generate_seeded(t, rng)
    \/ /\ call[t].pc = "generate"
       /\ self.model # UNSET
       /\ Len(call[t].generate_calls) < 2
       /\ call' = [call EXCEPT ![t].generate_calls =
                      Append(@, [input_ids |-> call[t].encoded_input,
                                 do_sample |-> TRUE,
                                 temperature |-> call[t].temperature,
                                 max_new_tokens |-> call[t].max_tokens,
                                 sampler |-> rng])]
       /\ UNCHANGED <<artifacts, self, load_result, rng, ci>>

\* mutant: predict falls back to a default model when self.model is missing
predict_generate_fallback(t) ==
    /\ call[t].pc = "generate"
    /\ LET new == Sample("mpt-7b", call[t].encoded_input[1], call[t].temperature,
                         call[t].max_tokens, rng)
       IN /\ call' = [call EXCEPT
                  ![t].pc = "decode",
                  ![t].generate_calls =
                      Append(@, [input_ids |-> call[t].encoded_input,
                                 do_sample |-> TRUE,
                                 temperature |-> call[t].temperature,
                                 max_new_tokens |-> call[t].max_tokens,
                                 sampler |-> rng]),
                  ![t].new_tokens = new,
                  ![t].output = <<call[t].encoded_input[1] \o new>>]
          /\ rng' = Advance(rng, new)
    /\ UNCHANGED <<artifacts, self, load_result, ci>>

\* lines 212-217, with the sampler in the state the generator is in
predict_generate(t) == predict_generate_seeded(t, rng)

\* mutant: len(...) of the batch, without the [0]
PromptLength_batch(tokenizer, prompt) == Len(Encode(tokenizer, prompt))

\* line 223: prompt_length = len(self.tokenizer.encode(prompt, return_tensors="pt")[0])
PromptLength(tokenizer, prompt) == Len(Encode(tokenizer, prompt)[1])

\* lines 220-228: decode, strip the prompt, return
predict_decode(t) ==
    /\ call[t].pc = "decode"
    /\ IF self.tokenizer = UNSET
       THEN Raise(t, "AttributeError")
       ELSE \/ Raise(t, "RuntimeError")
            \/ LET generated_text == Decode(self.tokenizer, call[t].output[1], TRUE)
                   prompt_length == PromptLength(self.tokenizer, call[t].prompt)
                   generated_response ==
                       Decode(self.tokenizer,
                              SliceFrom(call[t].output[1], prompt_length), TRUE)
               IN call' = [call EXCEPT
                       ![t].pc = "returned",
                       ![t].generated_text = generated_text,
                       ![t].prompt_length = prompt_length,
                       ![t].returned = <<[candidates |-> <<generated_response>>]>>]
    /\ UNCHANGED <<artifacts, self, load_result, rng, ci>>

\* the caller fixes the seed of the sampler that generate draws from
manual_seed(seed) ==
    /\ rng # seed
    /\ rng' = seed
    /\ UNCHANGED <<artifacts, self, load_result, call, ci>>

----------------------------------------------------------------------------
(* Spec: one caller, as the notebook uses the model *)

Next ==
    \/ \E snapshot \in Paths : load_context(snapshot)
    \/ \E model_input \in ModelInputs, params \in ParamChoices :
           predict_begin(1, model_input, params)
    \/ predict_encode(1)
    \/ predict_generate(1)
    \/ predict_decode(1)
    \/ \E seed \in Seeds : manual_seed(seed)

Spec == Init /\ [][Next]_vars

----------------------------------------------------------------------------
(* SpecConc: two callers of one instance, as a serving harness would run it; *)
(* their predict calls interleave at the calls into the library             *)

\* the inputs of the concurrent callers: one row each
ConcInputs == {[prompt |-> <<instruction>>] : instruction \in Instructions}

ConcParams == {NoneParams, [none |-> FALSE, d |-> Dict({"temperature"}, 6, 1)]}

NextConc ==
    \/ \E snapshot \in Paths : load_context(snapshot)
    \/ \E t \in Callers, model_input \in ConcInputs, params \in ConcParams :
           predict_begin(t, model_input, params)
    \/ \E t \in Callers : predict_encode(t)
    \/ \E t \in Callers : predict_generate(t)
    \/ \E t \in Callers : predict_decode(t)
    \/ \E seed \in Seeds : manual_seed(seed)

SpecConc == Init /\ [][NextConc]_vars

----------------------------------------------------------------------------
(* SpecKey: two runs of the py-cache-key action, and what changes between them *)

MptVars == <<artifacts, self, load_result, rng, call>>

\* the step has not yet run twice
MoreRuns == Len(ci.runs) < 2

\* the cache-key step of a job: its output key, with the environment it ran in
cache_key_step ==
    /\ MoreRuns
    /\ ci' = [ci EXCEPT !.runs = Append(@, [env |-> ci.env, key |-> OutputKey(ci.env)])]
    /\ UNCHANGED MptVars

\* the job gets another runner image
runner_image_changed(os, version) ==
    /\ MoreRuns
    /\ <<os, version>> # <<ci.env.ImageOS, ci.env.ImageVersion>>
    /\ ci' = [ci EXCEPT !.env.ImageOS = os, !.env.ImageVersion = version]
    /\ UNCHANGED MptVars

\* the job gets another python
python_changed(output) ==
    /\ MoreRuns
    /\ output # ci.env.python_version
    /\ ci' = [ci EXCEPT !.env.python_version = output]
    /\ UNCHANGED MptVars

\* the UTC date moves on
new_day(date) ==
    /\ MoreRuns
    /\ Earlier(ci.env.clock, date)
    /\ ci' = [ci EXCEPT !.env.clock = date]
    /\ UNCHANGED MptVars

\* a requirements file is edited
requirements_changed(requirements) ==
    /\ MoreRuns
    /\ requirements # ci.env.requirements
    /\ ci' = [ci EXCEPT !.env.requirements = requirements]
    /\ UNCHANGED MptVars

\* N is changed in action.yml to force a refresh
bump_N ==
    /\ MoreRuns
    /\ ci.env.N = N
    /\ ci' = [ci EXCEPT !.env.N = @ + 1]
    /\ UNCHANGED MptVars

NextKey ==
    \/ cache_key_step
    \/ \E os \in ImageOSes, version \in ImageVersions : runner_image_changed(os, version)
    \/ \E output \in PythonVersionOutputs : python_changed(output)
    \/ \E date \in Dates : new_day(date)
    \/ \E requirements \in RequirementsFiles : requirements_changed(requirements)
    \/ bump_N

SpecKey == Init /\ [][NextKey]_vars

----------------------------------------------------------------------------
(* The claims *)

Contains(text, piece) == \E i \in 1..Len(text) : text[i] = piece

HasToken(ids, id) == \E i \in 1..Len(ids) : ids[i] = id

Returned(t) == call[t].pc = "returned"

\* the tokens of the prompt predict builds from the first row of the input
PromptIds(t) ==
    Encode(self.tokenizer, _build_prompt(call[t].model_input.prompt[1]))[1]

\* C1: a predict call that returns gives a non-empty candidates sequence whose
\* text is the decoding of the model's output with exactly the tokens of the
\* constructed prompt removed from its front: the decoding of the tokens the
\* model appended.
C1_ContinuationOnly ==
    \A t \in Callers : Returned(t) =>
        /\ Len(call[t].returned) = 1
        /\ Len(call[t].returned[1].candidates) >= 1
        /\ call[t].output[1] = PromptIds(t) \o call[t].new_tokens
        /\ call[t].returned[1].candidates[1]
               = Decode(self.tokenizer, call[t].new_tokens, TRUE)

\* a complete bundle (whose tokenizer prepends a token) was loaded and predict
\* returned a non-empty continuation
C1_Witness ==
    /\ Returned(1)
    /\ load_result = "ok"
    /\ self = [tokenizer |-> "mpt-7b-bos", model |-> "mpt-7b-bos"]
    /\ call[1].returned[1].candidates[1] = <<"Machine learning is a field of AI.">>

\* C2: without explicit parameters (params None, or an empty dict) generate is
\* called with temperature 0.1 and max_new_tokens 1000, the defaults the
\* ParamSchema of the signature declares.
C2_DefaultsWithoutParams ==
    \A t \in Callers :
        (call[t].pc # "idle" /\ (call[t].params.none \/ DOMAIN call[t].params.d = {})) =>
            \A i \in 1..Len(call[t].generate_calls) :
                /\ call[t].generate_calls[i].temperature = 1
                /\ call[t].generate_calls[i].max_new_tokens = 1000
                /\ call[t].generate_calls[i].temperature = parameters.temperature.default
                /\ call[t].generate_calls[i].max_new_tokens = parameters.max_tokens.default

\* predict was called with params={} and generate was called
C2_Witness ==
    /\ Returned(1)
    /\ ~call[1].params.none
    /\ DOMAIN call[1].params.d = {}
    /\ Len(call[1].generate_calls) = 1

\* the input {prompt: "What is machine learning?"}
IsMLQuestion(t) == call[t].model_input = [prompt |-> <<ML_QUESTION>>]

\* C3, as stated: for the input {prompt: "What is machine learning?"} and any
\* model output, the candidate text does not contain "### Instruction:".
C3_NoInstructionKey ==
    \A t \in Callers : (Returned(t) /\ IsMLQuestion(t)) =>
        ~Contains(call[t].returned[1].candidates[1], INSTRUCTION_KEY)

\* C3, amended: for that input the candidate text contains "### Instruction:"
\* only if the tokens the model newly generated contain it: the scaffolding of
\* the prompt is stripped, what the model generates is returned as it is.
C3_ScaffoldingStripped ==
    \A t \in Callers : (Returned(t) /\ IsMLQuestion(t)) =>
        (Contains(call[t].returned[1].candidates[1], INSTRUCTION_KEY)
            => HasToken(call[t].new_tokens, TokenId(INSTRUCTION_KEY)))

\* predict returned an answer to the question, free of the instruction key
C3_Witness ==
    /\ Returned(1)
    /\ IsMLQuestion(1)
    /\ call[1].returned[1].candidates[1] = <<"Machine learning is a field of AI.">>
    /\ Contains(call[1].prompt, INSTRUCTION_KEY)

\* C4, as stated: after a load_context that raised, in any sequence of
\* load_context calls on the instance, no predict call returns a result.
C4_NoResultAfterFailedLoad ==
    load_result = "LoadFailure" => \A t \in Callers : ~Returned(t)

\* C5: two predict calls on the same loaded instance with identical input and
\* identical parameters, made with the sampler in the same state, return
\* identical candidates.
C5_Deterministic ==
    \A t1, t2 \in Callers :
        (/\ Returned(t1) /\ Returned(t2)
         /\ call[t1].model_input = call[t2].model_input
         /\ call[t1].params = call[t2].params
         /\ call[t1].generate_calls[1].sampler = call[t2].generate_calls[1].sampler)
        => call[t1].returned = call[t2].returned

\* two calls with the same input, parameters and sampler state have returned
C5_Witness ==
    /\ Returned(1) /\ Returned(2)
    /\ call[1].model_input = call[2].model_input
    /\ call[1].params = call[2].params
    /\ call[1].generate_calls[1].sampler = call[2].generate_calls[1].sampler
    /\ call[1].returned[1].candidates[1] # <<>>

\* C6: an error raised by the tokenizer or the model during predict leaves
\* predict as it is: generate is called at most once per predict call, and a
\* call that hit an error has raised and returned nothing.
C6_ErrorsPropagate ==
    \A t \in Callers :
        /\ Len(call[t].generate_calls) <= 1
        /\ call[t].error # "" => (call[t].pc = "raised" /\ call[t].returned = NoResult)
        /\ call[t].pc = "raised" => call[t].error # ""

\* the model raised in generate
C6_Witness ==
    /\ call[1].pc = "raised"
    /\ call[1].error = "RuntimeError"
    /\ Len(call[1].generate_calls) = 1
    /\ self.model # UNSET

\* a call past its generate step made that call for its own prompt and its own
\* parameters, and what it returns is the continuation of its own prompt
OwnResult(t) ==
    LET kwargs == call[t].generate_calls[1]
        p == call[t].params
    IN /\ Len(call[t].generate_calls) = 1
       /\ kwargs.input_ids = <<PromptIds(t)>>
       /\ kwargs.temperature =
              IF ~p.none /\ "temperature" \in DOMAIN p.d THEN p.d["temperature"] ELSE 1
       /\ kwargs.max_new_tokens =
              IF ~p.none /\ "max_tokens" \in DOMAIN p.d THEN p.d["max_tokens"] ELSE 1000
       /\ call[t].new_tokens =
              Sample(self.model, PromptIds(t), kwargs.temperature,
                     kwargs.max_new_tokens, kwargs.sampler)
       /\ Returned(t) =>
              call[t].returned =
                  <<[candidates |-> <<Decode(self.tokenizer, call[t].new_tokens, TRUE)>>]>>

\* C7: predict assigns no attribute of the instance (a step of a predict call
\* leaves self as it is), and under any interleaving of two predict calls each
\* call gets the result for its own prompt and parameters.
C7_ReadOnlyInference ==
    /\ [](\A t \in Callers : call[t].pc \in {"decode", "returned"} => OwnResult(t))
    /\ [][(\E t \in Callers : call'[t] # call[t] /\ call'[t].pc # "idle")
              => self' = self]_vars

\* two calls with different prompts and parameters are in flight at once, both
\* past generate
C7_Witness ==
    /\ call[1].pc = "decode"
    /\ call[2].pc = "decode"
    /\ call[1].model_input # call[2].model_input
    /\ call[1].params # call[2].params

\* C8: neither load_context nor predict changes the artifact directories.
C8_ArtifactsUnchanged == artifacts = Snapshots

\* a load succeeded, a later load failed and a predict call returned after it
C8_Witness ==
    /\ load_result = "LoadFailure"
    /\ self.model # UNSET
    /\ Returned(1)

\* C9: predict consumes one row: the prompt given to the tokenizer and to the
\* model is built from the first row alone, whatever the other rows are, and
\* the candidates sequence returned has length 1.
C9_OneRowOneCandidate ==
    \A t \in Callers :
        /\ call[t].pc # "idle" =>
               call[t].prompt = _build_prompt(call[t].model_input.prompt[1])
        /\ call[t].pc \in {"generate", "decode", "returned"} =>
               call[t].encoded_input = <<PromptIds(t)>>
        /\ \A i \in 1..Len(call[t].generate_calls) :
               call[t].generate_calls[i].input_ids = <<PromptIds(t)>>
        /\ Returned(t) => Len(call[t].returned[1].candidates) = 1

\* predict returned for an input of two rows that differ
C9_Witness ==
    /\ Returned(1)
    /\ Len(call[1].model_input.prompt) = 2
    /\ call[1].model_input.prompt[1] # call[1].model_input.prompt[2]

\* C10: the parameters the caller supplies reach generate unchanged and each is
\* defaulted on its own: a supplied temperature is the temperature of the
\* generate call, a supplied max_tokens its max_new_tokens, and a parameter
\* missing from a non-empty params takes its default (0.1, 1000).
C10_ParamsPassedThrough ==
    \A t \in Callers : \A i \in 1..Len(call[t].generate_calls) :
        LET kwargs == call[t].generate_calls[i]
            d == call[t].params.d
        IN (~call[t].params.none /\ DOMAIN d # {}) =>
            /\ kwargs.temperature =
                   IF "temperature" \in DOMAIN d THEN d["temperature"] ELSE 1
            /\ kwargs.max_new_tokens =
                   IF "max_tokens" \in DOMAIN d THEN d["max_tokens"] ELSE 1000

\* params={"temperature": 0.6}: generate got 0.6 and 1000
C10_Witness ==
    /\ Returned(1)
    /\ call[1].params = [none |-> FALSE, d |-> [temperature |-> 6]]
    /\ call[1].generate_calls[1].temperature = 6
    /\ call[1].generate_calls[1].max_new_tokens = 1000

\* the first position of a piece in a text (0 when it is absent)
IndexOf(text, piece) ==
    IF Contains(text, piece)
    THEN CHOOSE i \in 1..Len(text) :
             text[i] = piece /\ \A j \in 1..(i - 1) : text[j] # piece
    ELSE 0

\* C11: the prompt predict constructs is the intro blurb, then the
\* "### Instruction:" key, then the instruction text of the first row verbatim,
\* then the "### Response:" key, in that order, and what is tokenized and sent
\* to the model is this constructed prompt, not the raw instruction.
C11_PromptTemplate ==
    \A t \in Callers : call[t].pc # "idle" =>
        LET instruction == call[t].model_input.prompt[1]
            prompt == call[t].prompt
            n == Len(instruction)
        IN /\ Len(prompt) = n + 7
           /\ prompt[1] = INTRO_BLURB
           /\ prompt[3] = INSTRUCTION_KEY
           /\ SubSeq(prompt, 5, 4 + n) = instruction
           /\ prompt[n + 6] = RESPONSE_KEY
           /\ \A i \in {2, 4, n + 5, n + 7} : prompt[i] = LINE_BREAK
           /\ IndexOf(prompt, INTRO_BLURB) < IndexOf(prompt, INSTRUCTION_KEY)
           /\ IndexOf(prompt, INSTRUCTION_KEY) < IndexOf(prompt, RESPONSE_KEY)
           /\ call[t].pc \in {"generate", "decode", "returned"} =>
                  /\ Decode(self.tokenizer, call[t].encoded_input[1], TRUE) = prompt
                  /\ Decode(self.tokenizer, call[t].encoded_input[1], TRUE) # instruction
           /\ \A i \in 1..Len(call[t].generate_calls) :
                  Decode(self.tokenizer, call[t].generate_calls[i].input_ids[1], TRUE)
                      = prompt

\* the model was sent the prompt built around an instruction of two pieces,
\* one of them the instruction key itself
C11_Witness ==
    /\ Returned(1)
    /\ call[1].model_input.prompt[1] = <<INSTRUCTION_KEY, "Say hi.">>
    /\ Len(call[1].generate_calls) = 1
    /\ Len(call[1].prompt) = 9

\* C13: on an instance on which no load_context call has completed (self.model
\* is assigned by a completing load_context and by nothing else), a predict
\* call never returns a result and never gets to call generate: it raises
\* before.
C13_NoPredictBeforeLoad ==
    /\ [](self.model = UNSET =>
            \A t \in Callers :
                /\ call[t].pc \notin {"decode", "returned"}
                /\ call[t].returned = NoResult
                /\ call[t].generate_calls = <<>>
                /\ (call[t].pc = "raised" /\ call[t].encoded_input # <<>>)
                       => call[t].error = "AttributeError")
    /\ [][/\ (self.model = UNSET /\ self'.model # UNSET) => load_result' = "ok"
          /\ (self.model # UNSET) => self'.model # UNSET
          /\ (load_result' = "ok") => self'.model # UNSET]_vars

\* after a load_context that raised at the config step, predict tokenized its
\* prompt and raised at self.model, before generate
C13_Witness ==
    /\ self = [tokenizer |-> "no-config", model |-> UNSET]
    /\ load_result = "LoadFailure"
    /\ call[1].pc = "raised"
    /\ call[1].error = "AttributeError"
    /\ call[1].encoded_input # <<>>
    /\ call[1].generate_calls = <<>>

\* the components of the key in which the environments of two runs differ
Changed(a, b) ==
    {c \in {"runner image", "python version", "date", "requirements", "N"} :
        CASE c = "runner image" ->
                 <<a.ImageOS, a.ImageVersion>> # <<b.ImageOS, b.ImageVersion>>
          [] c = "python version" -> a.python_version # b.python_version
          [] c = "date" -> a.clock # b.clock
          [] c = "requirements" -> a.requirements # b.requirements
          [] OTHER -> a.N # b.N}

\* C12: the key of the py-cache-key action is composed of the runner image,
\* the python version, the UTC date, the requirements hash and N: two runs in
\* which all five are the same produce the same key, and two runs that differ
\* in one of them, the others equal, produce different keys.
C12_CacheKey ==
    Len(ci.runs) = 2 =>
        LET a == ci.runs[1]
            b == ci.runs[2]
        IN /\ Changed(a.env, b.env) = {} => a.key = b.key
           /\ Cardinality(Changed(a.env, b.env)) = 1 => a.key # b.key
           /\ a.env = RunnerEnv =>
                  a.key = "ubuntu22-20261026.1.0-3.10.12-20260112-2c26b46b68ffc68ff99b453c1d30413413422d706483bfa0f98a5e886266e7ae-1"

\* a run on 12 January and a run on 2 November, all else equal
C12_Witness ==
    /\ Len(ci.runs) = 2
    /\ ci.runs[1].env = RunnerEnv
    /\ Changed(ci.runs[1].env, ci.runs[2].env) = {"date"}
    /\ ci.runs[2].env.clock = [year |-> 2026, month |-> 11, day |-> 2]
    /\ ci.runs[1].key # ci.runs[2].key

====
